---- MODULE Spec2Model ----
(***************************************************************************)
(* The interactive list-picker of package-menu.py, task-menu-fast.py and   *)
(* tmux-menu.py: main(), the menu object's fields, run()'s loop, the key   *)
(* reader _get_key() with its raw-mode scope, _update_scroll(), the lines  *)
(* _draw_menu() prints and the activation hand-off to the external         *)
(* process with its reports and acknowledgement read.                      *)
(*                                                                         *)
(* The environment is the terminal: the bytes the user types (inq), the    *)
(* end of the input stream (eof), the terminal's mode flags (mode), the    *)
(* cursor, and the control sequences written to it (ctl).                  *)
(***************************************************************************)
EXTENDS Integers, Sequences, FiniteSets

\* ------------------------------------------------------------------ bounds
\* Longest item list the data source returns.
MaxItems == 4
\* How many of the most recent screen-control sequences ctl remembers.
CtlWindow == 2

\* --------------------------------------------------------- program constants
\* min(30, ...) in __init__
MaxVisible == 30
\* terminal_height - 8 in __init__
ChromeRows == 8
\* the row count _get_terminal_size falls back to
FallbackRows == 24
\* the column count _get_terminal_size falls back to
FallbackCols == 80
\* max(80, ...) in _draw_menu
MinWidth == 80
\* terminal_width - 4 in _draw_menu
BorderRoom == 4
\* available_width - name_width - 7 in _draw_menu
Separators == 7

\* ------------------------------------------------------------- the variants
Variants == {"package", "task", "tmux"}

\* Row counts `stty size` may report.
SttyRows == {7, 8, 9, 10, 11, 50}

\* Column counts `stty size` may report to the menu loop, whose control flow
\* never reads terminal_width; RenderCols below varies the width.
SttyCols == {120}

\* Sizes __init__ may see: what `stty size` reports, or the fallback.
TerminalSizes == (SttyRows \X SttyCols) \cup { <<FallbackRows, FallbackCols>> }

\* Names the data source yields, in order; a fetch returns a prefix.
Catalogue == <<"build", "test", "lint", "dev", "fmt", "docs">>

\* <<len(name), len(detail)>> of the catalogue's items.
CatalogueLens ==
    << <<5, 6>>, <<4, 4>>, <<4, 10>>, <<3, 4>>, <<3, 14>>, <<4, 0>> >>

\* Reasons _get_sessions leaves in error_message when it returns no session.
TmuxReasons ==
    { "tmux not found on PATH.",
      "tmux ls timed out.",
      "No tmux server running. Start a session first.",
      "Failed to query tmux sessions.",
      "tmux returned no sessions." }

\* --------------------------------------------------------------- the bytes
ESC == "ESC"
CR  == "CR"
LF  == "LF"
ETX == "ETX"

\* One key press of the user, as the bytes the terminal delivers together.
KeyPresses ==
    { <<ESC, "[", "A">>, <<ESC, "[", "B">>, <<ESC, "[", "C">>,
      <<ESC>>, <<CR>>, <<LF>>, <<"q">>, <<"j">>, <<"k">>, <<ETX>>, <<"x">> }

\* ------------------------------------------------------------- pure helpers
Min(a, b) == IF a < b THEN a ELSE b
Max(a, b) == IF a > b THEN a ELSE b

\* __init__: self.max_display_items = min(30, self.terminal_height - 8)
MaxDisplayItems(rows) == Min(MaxVisible, rows - ChromeRows)

\* Up without the wrap-around branch: the selection sticks at the top.
MoveUp_NoWrap(sel, n) == IF sel > 0 THEN sel - 1 ELSE 0

\* run(), Up arrow / k branch
MoveUp(sel, n) == IF sel > 0 THEN sel - 1 ELSE n - 1

\* Down without the wrap-around branch: the selection sticks at the bottom.
MoveDown_NoWrap(sel, n) == IF sel < n - 1 THEN sel + 1 ELSE sel

\* run(), Down arrow / j branch
MoveDown(sel, n) == IF sel < n - 1 THEN sel + 1 ELSE 0

\* _update_scroll with the lower branch off by one: the window is pushed one
\* row too far down.
UpdateScroll_OffByOne(sel, scroll, m) ==
    IF sel < scroll THEN sel
    ELSE IF sel >= scroll + m THEN sel - m + 2
    ELSE scroll

\* _update_scroll: the new scroll_offset
UpdateScroll(sel, scroll, m) ==
    IF sel < scroll THEN sel
    ELSE IF sel >= scroll + m THEN sel - m + 1
    ELSE scroll

\* _get_display_range
GetDisplayRange(scroll, m, n) == <<scroll, Min(scroll + m, n)>>

\* The chain without its Ctrl+C branch.
PackageKeyAction_NoCtrlC(k) ==
    IF k = <<ESC, "[", "A">> THEN "up"
    ELSE IF k = <<ESC, "[", "B">> THEN "down"
    ELSE IF k = <<CR>> \/ k = <<LF>> THEN "enter"
    ELSE IF k = <<"q">> THEN "quit"
    ELSE IF k = <<ESC>> \/ k = <<ESC, "[">> THEN "quit"
    ELSE IF k = <<"j">> THEN "down"
    ELSE IF k = <<"k">> THEN "up"
    ELSE "none"

\* The chain with the Escape branch testing only the first byte: every
\* escape sequence that is not an arrow quits.
PackageKeyAction_AnyEscapeQuits(k) ==
    IF k = <<ESC, "[", "A">> THEN "up"
    ELSE IF k = <<ESC, "[", "B">> THEN "down"
    ELSE IF k = <<CR>> \/ k = <<LF>> THEN "enter"
    ELSE IF k = <<"q">> THEN "quit"
    ELSE IF k # <<>> /\ Head(k) = ESC THEN "quit"
    ELSE IF k = <<ETX>> THEN "quit"
    ELSE IF k = <<"j">> THEN "down"
    ELSE IF k = <<"k">> THEN "up"
    ELSE "none"

\* The chain without its j and k branches.
PackageKeyAction_NoVimKeys(k) ==
    IF k = <<ESC, "[", "A">> THEN "up"
    ELSE IF k = <<ESC, "[", "B">> THEN "down"
    ELSE IF k = <<CR>> \/ k = <<LF>> THEN "enter"
    ELSE IF k = <<"q">> THEN "quit"
    ELSE IF k = <<ESC>> \/ k = <<ESC, "[">> THEN "quit"
    ELSE IF k = <<ETX>> THEN "quit"
    ELSE "none"

\* run(): the if/elif chain over the key string of package-menu.py and
\* task-menu-fast.py
PackageKeyAction(k) ==
    IF k = <<ESC, "[", "A">> THEN "up"
    ELSE IF k = <<ESC, "[", "B">> THEN "down"
    ELSE IF k = <<CR>> \/ k = <<LF>> THEN "enter"
    ELSE IF k = <<"q">> THEN "quit"
    ELSE IF k = <<ESC>> \/ k = <<ESC, "[">> THEN "quit"
    ELSE IF k = <<ETX>> THEN "quit"
    ELSE IF k = <<"j">> THEN "down"
    ELSE IF k = <<"k">> THEN "up"
    ELSE "none"

\* tmux-menu.py's chain with the j and k branches swapped.
TmuxKeyAction_VimSwapped(k) ==
    IF k = <<ESC, "[", "A">> THEN "up"
    ELSE IF k = <<ESC, "[", "B">> THEN "down"
    ELSE IF k \in {<<"j">>} THEN "up"
    ELSE IF k \in {<<"k">>} THEN "down"
    ELSE IF k \in {<<CR>>, <<LF>>} THEN "enter"
    ELSE IF k \in {<<"q">>, <<ESC>>, <<ESC, "[">>} THEN "quit"
    ELSE IF k = <<ETX>> THEN "quit"
    ELSE "none"

\* run(): the if/elif chain of tmux-menu.py
TmuxKeyAction(k) ==
    IF k = <<ESC, "[", "A">> THEN "up"
    ELSE IF k = <<ESC, "[", "B">> THEN "down"
    ELSE IF k \in {<<"j">>} THEN "down"
    ELSE IF k \in {<<"k">>} THEN "up"
    ELSE IF k \in {<<CR>>, <<LF>>} THEN "enter"
    ELSE IF k \in {<<"q">>, <<ESC>>, <<ESC, "[">>} THEN "quit"
    ELSE IF k = <<ETX>> THEN "quit"
    ELSE "none"

KeyAction(v, k) == IF v = "tmux" THEN TmuxKeyAction(k) ELSE PackageKeyAction(k)

\* ------------------------------------------------------- _draw_menu's lines
\* A line is described by what it is and by how many characters it has,
\* styling escapes left out; a field of an item row by the characters of the
\* text it keeps, of the "..." appended and of the padding.
RECURSIVE Digits(_)
Digits(x) == IF x < 10 THEN 1 ELSE 1 + Digits(x \div 10)

\* len(str(x))
StrLen(x) == IF x < 0 THEN 1 + Digits(0 - x) ELSE Digits(x)

\* len(s[:stop]) for a string of len characters
SliceLen(len, stop) == IF stop >= 0 THEN Min(len, stop) ELSE Max(0, len + stop)

\* len(c * k)
Repeat(k) == Max(0, k)

\* available_width = max(80, self.terminal_width - 4)
AvailableWidth(cols) == Max(MinWidth, cols - BorderRoom)

\* available_width // 3 (package-menu.py, tmux-menu.py), // 2 (task-menu-fast.py)
NameShare(v) == IF v = "task" THEN 2 ELSE 3

\* max(len(name) for name, _ in items)
MaxNameLength(ls) ==
    CHOOSE x \in { ls[i][1] : i \in DOMAIN ls } :
        \A i \in DOMAIN ls : ls[i][1] <= x

\* name_width = min(max_name_length + 2, available_width // k)
NameWidth(v, cols, ls) ==
    Min(MaxNameLength(ls) + 2, AvailableWidth(cols) \div NameShare(v))

\* cmd_width / desc_width / detail_width = available_width - name_width - 7
DetailWidth(v, cols, ls) ==
    AvailableWidth(cols) - NameWidth(v, cols, ls) - Separators

NoField == [text |-> 0, dots |-> 0, pad |-> 0]

FieldWidth(f) == f.text + f.dots + f.pad

\* display_name = name.ljust(name_width)
DisplayName(len, w) == [text |-> len, dots |-> 0, pad |-> Repeat(w - len)]

\* The detail padded only, never cut.
DisplayDetail_NoTruncation(v, len, w) ==
    [text |-> len, dots |-> 0, pad |-> Repeat(w - len)]

\* display_cmd / display_desc / display_details: cut to width-3 plus "..."
\* when longer than the column, padded otherwise; task-menu-fast.py and
\* tmux-menu.py pad an empty detail without looking at the width
DisplayDetail(v, len, w) ==
    IF v # "package" /\ len = 0
      THEN [text |-> 0, dots |-> 0, pad |-> Repeat(w)]
    ELSE IF len > w
      THEN [text |-> SliceLen(len, w - 3), dots |-> 3, pad |-> 0]
      ELSE [text |-> len, dots |-> 0, pad |-> Repeat(w - len)]

\* top_border, mid_border, bottom_border: corner + "─" * (border_width - 2)
\* + corner
BorderLine(bw) ==
    [kind |-> "border", width |-> 1 + Repeat(bw - 2) + 1, idx |-> -1,
     selected |-> FALSE, name |-> NoField, detail |-> NoField,
     x |-> 0, y |-> 0, total |-> 0]

\* len(header_text)
HeaderLen(v) == IF v = "package" THEN 17 ELSE IF v = "task" THEN 11 ELSE 15

\* "│" + ' ' * padding + header_text
\* + ' ' * (border_width - len(header_text) - padding - 2) + "│"
HeaderLine(v, bw) ==
    LET padding == (bw - HeaderLen(v) - 2) \div 2
    IN  [kind |-> "header",
         width |-> 1 + Repeat(padding) + HeaderLen(v)
                     + Repeat(bw - HeaderLen(v) - padding - 2) + 1,
         idx |-> -1, selected |-> FALSE, name |-> NoField, detail |-> NoField,
         x |-> 0, y |-> 0, total |-> 0]

\* The row of item i: "│ ➤ {display_name} │ {display_detail} │" when
\* selected, "│  {display_name} │ {display_detail} │" otherwise
ItemLine(v, i, sel, ls, nw, dw) ==
    LET n == DisplayName(ls[i + 1][1], nw)
        d == DisplayDetail(v, ls[i + 1][2], dw)
    IN  [kind |-> "item",
         width |-> IF i = sel
                     THEN 1 + 1 + 2 + FieldWidth(n) + 1 + 1 + 1 + FieldWidth(d) + 1 + 1
                     ELSE 1 + 2 + FieldWidth(n) + 1 + 1 + 1 + FieldWidth(d) + 1 + 1,
         idx |-> i, selected |-> (i = sel), name |-> n, detail |-> d,
         x |-> 0, y |-> 0, total |-> 0]

\* len("scripts"), len("tasks"), len("sessions")
UnitLen(v) == IF v = "package" THEN 7 ELSE IF v = "task" THEN 5 ELSE 8

\* len(f"Showing {start + 1}-{end} of {total} <unit>")
ScrollInfoLen(v, x, y, total) ==
    8 + StrLen(x) + 1 + StrLen(y) + 4 + StrLen(total) + 1 + UnitLen(v)

\* "│" + " " + scroll_info + ' ' * (border_width - len(scroll_info) - 2) + "│"
ScrollLine(v, bw, start, end, total) ==
    LET info == ScrollInfoLen(v, start + 1, end, total)
    IN  [kind |-> "scroll",
         width |-> 1 + 1 + info + Repeat(bw - info - 2) + 1,
         idx |-> -1, selected |-> FALSE, name |-> NoField, detail |-> NoField,
         x |-> start + 1, y |-> end, total |-> total]

\* len(controls)
ControlsLen(v) == IF v = "tmux" THEN 51 ELSE 62

\* "│" + " " + controls + ' ' * (border_width - len(controls) - 2) + "│"
ControlsLine(v, bw) ==
    [kind |-> "controls",
     width |-> 1 + 1 + ControlsLen(v) + Repeat(bw - ControlsLen(v) - 2) + 1,
     idx |-> -1, selected |-> FALSE, name |-> NoField, detail |-> NoField,
     x |-> 0, y |-> 0, total |-> 0]

\* if total > self.max_display_items: mid_border and the scroll row
Footer(v, bw, m, start, end, total) ==
    IF total > m
      THEN << BorderLine(bw), ScrollLine(v, bw, start, end, total) >>
      ELSE << >>

\* _draw_menu for a non-empty list: the lines it prints, top to bottom
DrawMenu(v, cols, m, ls, sel, scroll) ==
    LET bw    == AvailableWidth(cols)
        nw    == NameWidth(v, cols, ls)
        dw    == DetailWidth(v, cols, ls)
        range == GetDisplayRange(scroll, m, Len(ls))
        start == range[1]
        end   == range[2]
        rows  == [ j \in 1..Repeat(end - start) |->
                      ItemLine(v, start + j - 1, sel, ls, nw, dw) ]
    IN  << BorderLine(bw), HeaderLine(v, bw), BorderLine(bw) >>
        \o rows
        \o Footer(v, bw, m, start, end, Len(ls))
        \o << BorderLine(bw), ControlsLine(v, bw), BorderLine(bw) >>

\* The message run() prints when the data source returned nothing.
EmptyMessage(v, reason) ==
    IF v = "package" THEN "No scripts found."
    ELSE IF v = "task" THEN "No tasks found."
    ELSE IF reason # "" THEN reason ELSE "No tmux sessions found."

VARIABLES
    variant,            \* which of the three programs runs
    isatty,             \* sys.stdin.isatty() at startup
    premode,            \* the terminal's mode flags before the program
    mode,               \* the terminal's mode flags now
    cursor,             \* "shown" | "hidden"
    ctl,                \* the last CtlWindow screen-control sequences written
    msgs,               \* the plain messages printed so far
    inq,                \* bytes typed and not yet read
    eof,                \* the input stream has ended
    terminal_height,    \* self.terminal_height
    max_display_items,  \* self.max_display_items
    items,              \* self.scripts / self.tasks / self.sessions (names)
    error_message,      \* self.error_message (tmux-menu.py)
    fetches,            \* calls of the data source so far
    selected_index,     \* self.selected_index
    scroll_offset,      \* self.scroll_offset
    pc,                 \* where the process is
    ret,                \* who called _get_key: "loop" | "ack"
    old_settings,       \* _get_key's old_settings
    key,                \* the key string being read / last read
    exc,                \* the exception in flight, "" when none
    runCalls,           \* names the external run was invoked with
    result,             \* how the external run ended, "" before it has
    terminal_width,     \* self.terminal_width
    lens,               \* per item: <<len(name), len(detail)>>
    frame,              \* the lines _draw_menu printed last
    exitCode            \* process exit status, -1 while running

vars == << variant, isatty, premode, mode, cursor, ctl, msgs, inq, eof,
           terminal_height, max_display_items, items, error_message, fetches,
           selected_index, scroll_offset, pc, ret, old_settings, key, exc,
           runCalls, exitCode, result, terminal_width, lens, frame >>

env    == << variant, isatty, premode >>
term   == << mode, cursor, ctl >>
input  == << inq, eof >>
geom   == << terminal_height, terminal_width, max_display_items >>
list   == << items, lens, error_message, fetches >>
window == << selected_index, scroll_offset >>
reader == << ret, old_settings, key >>
runs   == << runCalls, result >>

nItems == Len(items)

\* Writing screen-control sequences: ctl keeps the most recent CtlWindow.
Emit(ops) ==
    LET s == ctl \o ops
    IN  SubSeq(s, Max(1, Len(s) - CtlWindow + 1), Len(s))

Init ==
    /\ variant \in Variants
    /\ isatty \in BOOLEAN
    /\ premode \in {"cooked", "cbreak"}
    /\ mode = premode
    /\ cursor = "shown"
    /\ ctl = <<>>
    /\ msgs = {}
    /\ inq = <<>>
    /\ eof = FALSE
    /\ terminal_height = 0
    /\ max_display_items = 0
    /\ items = <<>>
    /\ error_message = ""
    /\ fetches = 0
    /\ selected_index = 0
    /\ scroll_offset = 0
    /\ pc = "main"
    /\ ret = "loop"
    /\ old_settings = "unset"
    /\ key = <<>>
    /\ exc = ""
    /\ runCalls = <<>>
    /\ result = ""
    /\ terminal_width = 0
    /\ lens = <<>>
    /\ frame = <<>>
    /\ exitCode = -1

\* main() without the isatty test: the menu is built on any stdin.
MainNotATty_Proceeds ==
    /\ pc = "main"
    /\ ~isatty
    /\ \E size \in TerminalSizes :
          /\ terminal_height' = size[1]
          /\ terminal_width' = size[2]
          /\ max_display_items' = MaxDisplayItems(size[1])
    /\ pc' = "load"
    /\ UNCHANGED << env, frame, term, input, list, window, reader, exc, runs, msgs,
                    exitCode >>

\* ------------------------------------------------------------------- main()
\* stdin is not a terminal: two plain lines and sys.exit(1).
MainNotATty ==
    /\ pc = "main"
    /\ ~isatty
    /\ msgs' = msgs \cup {"This script requires an interactive terminal."}
    /\ exitCode' = 1
    /\ pc' = "done"
    /\ UNCHANGED << env, frame, term, input, geom, list, window, reader, exc, runs >>

\* stdin is a terminal: the menu object is constructed (__init__ samples the
\* terminal size once; rows = FallbackRows when `stty size` fails).
MainConstruct ==
    /\ pc = "main"
    /\ isatty
    /\ \E size \in TerminalSizes :
          /\ terminal_height' = size[1]
          /\ terminal_width' = size[2]
          /\ max_display_items' = MaxDisplayItems(size[1])
    /\ selected_index' = 0
    /\ scroll_offset' = 0
    /\ pc' = "load"
    /\ UNCHANGED << env, frame, term, input, list, reader, exc, runs, msgs, exitCode >>

Main == MainNotATty \/ MainConstruct

\* run() without the early return: an empty list goes on into the loop.
Load_NoEarlyReturn ==
    /\ pc = "load"
    /\ fetches' = fetches + 1
    /\ \E k \in 0..MaxItems :
          /\ items' = SubSeq(Catalogue, 1, k)
          /\ lens' = SubSeq(CatalogueLens, 1, k)
          /\ \E reason \in (IF variant = "tmux" /\ k = 0 THEN TmuxReasons ELSE {""}) :
                error_message' = reason
    /\ pc' = "draw"
    /\ UNCHANGED << env, frame, term, input, geom, window, reader, exc, runs, msgs,
                    exitCode >>

\* --------------------------------------------------------- run(): loading
\* self.items = self._get_items(); if not self.items: print(...); return
Load ==
    /\ pc = "load"
    /\ fetches' = fetches + 1
    /\ \E k \in 0..MaxItems :
          /\ items' = SubSeq(Catalogue, 1, k)
          /\ lens' = SubSeq(CatalogueLens, 1, k)
          /\ \E reason \in (IF variant = "tmux" /\ k = 0 THEN TmuxReasons ELSE {""}) :
                /\ error_message' = reason
                /\ IF k = 0
                     THEN /\ msgs' = msgs \cup {EmptyMessage(variant, reason)}
                          /\ exitCode' = 0
                          /\ pc' = "done"
                     ELSE /\ pc' = "draw"
                          /\ UNCHANGED << msgs, exitCode >>
    /\ UNCHANGED << env, frame, term, input, geom, window, reader, exc, runs >>

\* ------------------------------------------------ the user and the terminal
\* The user presses a key: its bytes reach the input queue together.  The
\* process sees the queue only through its reads, byte by byte and in order,
\* so every byte stream is produced by letting the user type while a read
\* is waiting on an empty queue.
Keypress ==
    /\ pc \in {"read1", "read_rest"}
    /\ ~eof
    /\ inq = <<>>
    /\ \E k \in KeyPresses : inq' = inq \o k
    /\ UNCHANGED << env, frame, term, msgs, eof, geom, list, window, pc, reader, exc,
                    runs, exitCode >>

\* The input stream ends (the terminal goes away): reads return ''.
CloseInput ==
    /\ pc \in {"read1", "read_rest"}
    /\ ~eof
    /\ eof' = TRUE
    /\ UNCHANGED << env, frame, term, msgs, inq, geom, list, window, pc, reader, exc,
                    runs, exitCode >>

\* ------------------------------------------------------------- _draw_menu()
\* _draw_menu sampling the terminal size anew for every frame.
Draw_Resampling ==
    /\ pc = "draw"
    /\ ctl' = Emit(<<"clear", "hide">>)
    /\ cursor' = "hidden"
    /\ \E size \in TerminalSizes :
          /\ terminal_height' = size[1]
          /\ terminal_width' = size[2]
          /\ max_display_items' = MaxDisplayItems(size[1])
          /\ frame' = DrawMenu(variant, size[2], MaxDisplayItems(size[1]), lens,
                               selected_index, scroll_offset)
    /\ ret' = "loop"
    /\ pc' = "getattr"
    /\ UNCHANGED << env, mode, msgs, input, list, window, old_settings,
                    key, exc, runs, exitCode >>

\* _draw_menu moving the selection on by one with every frame it draws.
Draw_AdvancesSelection ==
    /\ pc = "draw"
    /\ ctl' = Emit(<<"clear", "hide">>)
    /\ cursor' = "hidden"
    /\ frame' = DrawMenu(variant, terminal_width, max_display_items, lens,
                         selected_index, scroll_offset)
    /\ selected_index' = MoveDown(selected_index, nItems)
    /\ ret' = "loop"
    /\ pc' = "getattr"
    /\ UNCHANGED << env, mode, msgs, input, geom, list, scroll_offset,
                    old_settings, key, exc, runs, exitCode >>

\* _clear_screen(), _hide_cursor(), then the frame (items is non-empty here).
Draw ==
    /\ pc = "draw"
    /\ ctl' = Emit(<<"clear", "hide">>)
    /\ cursor' = "hidden"
    /\ frame' = DrawMenu(variant, terminal_width, max_display_items, lens,
                         selected_index, scroll_offset)
    /\ ret' = "loop"
    /\ pc' = "getattr"
    /\ UNCHANGED << env, mode, msgs, input, geom, list, window, old_settings,
                    key, exc, runs, exitCode >>

\* --------------------------------------------------------------- _get_key()
\* except (termios.error, OSError, EOFError): two plain lines, sys.exit(1)
NotInteractiveMsg == "Interactive mode not available."

\* old_settings = termios.tcgetattr(fd)
GetAttr ==
    /\ pc = "getattr"
    /\ \/ /\ old_settings' = mode
          /\ pc' = "setraw"
          /\ UNCHANGED << msgs, exc >>
       \/ /\ msgs' = msgs \cup {NotInteractiveMsg}
          /\ exc' = "SystemExit"
          /\ pc' = "raised"
          /\ UNCHANGED old_settings
    /\ UNCHANGED << env, frame, term, input, geom, list, window, ret, key, runs,
                    exitCode >>

\* tty.setraw(fd), the first statement inside try/finally
SetRaw ==
    /\ pc = "setraw"
    /\ \/ /\ mode' = "raw"
          /\ key' = <<>>
          /\ pc' = "read1"
          /\ UNCHANGED exc
       \/ /\ exc' = "termios.error"
          /\ pc' = "restore"
          /\ UNCHANGED << mode, key >>
    /\ UNCHANGED << env, frame, cursor, ctl, msgs, input, geom, list, window, ret,
                    old_settings, runs, exitCode >>

\* key = sys.stdin.read(1): blocks until a byte is there or the stream ended
Read1 ==
    /\ pc = "read1"
    /\ \/ /\ inq # <<>>
          /\ key' = <<Head(inq)>>
          /\ inq' = Tail(inq)
          /\ pc' = IF Head(inq) = ESC THEN "read_rest" ELSE "restore"
       \/ /\ inq = <<>>
          /\ eof
          /\ key' = <<>>
          /\ pc' = "restore"
          /\ UNCHANGED inq
    /\ UNCHANGED << env, frame, term, msgs, eof, geom, list, window, ret, old_settings,
                    exc, runs, exitCode >>

\* key += sys.stdin.read(2): blocks until two more bytes are there or the
\* stream ended
ReadRest ==
    /\ pc = "read_rest"
    /\ \/ /\ inq # <<>>
          /\ key' = Append(key, Head(inq))
          /\ inq' = Tail(inq)
          /\ pc' = IF Len(key) = 2 THEN "restore" ELSE "read_rest"
       \/ /\ inq = <<>>
          /\ eof
          /\ pc' = "restore"
          /\ UNCHANGED << inq, key >>
    /\ UNCHANGED << env, frame, term, msgs, eof, geom, list, window, ret, old_settings,
                    exc, runs, exitCode >>

\* the blocked sys.stdin.read raises OSError (the terminal went away)
ReadError ==
    /\ pc \in {"read1", "read_rest"}
    /\ inq = <<>>
    /\ exc' = "OSError"
    /\ pc' = "restore"
    /\ UNCHANGED << env, frame, term, msgs, input, geom, list, window, reader,
                    runs, exitCode >>

\* SIGINT arrives while the read blocks: KeyboardInterrupt inside try/finally
ReadInterrupt ==
    /\ pc \in {"read1", "read_rest"}
    /\ inq = <<>>
    /\ exc' = "KeyboardInterrupt"
    /\ pc' = "restore"
    /\ UNCHANGED << env, frame, term, msgs, input, geom, list, window, reader,
                    runs, exitCode >>

\* _get_key with the tcsetattr after the reads instead of in a finally clause:
\* an exception skips it.
Restore_NoFinally ==
    /\ pc = "restore"
    /\ IF exc = ""
         THEN /\ mode' = old_settings
              /\ pc' = IF ret = "loop" THEN "dispatch" ELSE "finally"
              /\ key' = IF ret = "loop" THEN key ELSE <<>>
              /\ UNCHANGED << msgs, exc >>
         ELSE IF exc \in {"OSError", "termios.error"}
         THEN /\ msgs' = msgs \cup {NotInteractiveMsg}
              /\ exc' = "SystemExit"
              /\ pc' = "raised"
              /\ UNCHANGED << mode, key >>
         ELSE /\ pc' = "raised"
              /\ UNCHANGED << mode, msgs, exc, key >>
    /\ UNCHANGED << env, frame, cursor, ctl, input, geom, list, window, ret,
                    old_settings, runs, exitCode >>

\* finally: termios.tcsetattr(fd, termios.TCSADRAIN, old_settings), then the
\* return, or the except clause of _get_key for a terminal/OS error.  The
\* acknowledgement read drops the value returned.
Restore ==
    /\ pc = "restore"
    /\ mode' = old_settings
    /\ IF exc = ""
         THEN /\ pc' = IF ret = "loop" THEN "dispatch" ELSE "finally"
              /\ key' = IF ret = "loop" THEN key ELSE <<>>
              /\ UNCHANGED << msgs, exc >>
         ELSE IF exc \in {"OSError", "termios.error"}
         THEN /\ msgs' = msgs \cup {NotInteractiveMsg}
              /\ exc' = "SystemExit"
              /\ pc' = "raised"
              /\ UNCHANGED key
         ELSE /\ pc' = "raised"
              /\ UNCHANGED << msgs, exc, key >>
    /\ UNCHANGED << env, frame, cursor, ctl, input, geom, list, window, ret,
                    old_settings, runs, exitCode >>

\* SIGINT arrives between the blocking calls: while the frame is drawn or
\* before _get_key has entered its try/finally
Interrupt ==
    /\ pc \in {"draw", "getattr"}
    /\ exc' = "KeyboardInterrupt"
    /\ pc' = "raised"
    /\ UNCHANGED << env, frame, term, msgs, input, geom, list, window, reader,
                    runs, exitCode >>

\* ------------------------------------------------- run(): the key handlers
\* Up arrow, k
NavUp ==
    /\ pc = "dispatch"
    /\ KeyAction(variant, key) = "up"
    /\ IF nItems > 0
         THEN /\ selected_index' = MoveUp(selected_index, nItems)
              /\ scroll_offset' =
                    UpdateScroll(selected_index', scroll_offset, max_display_items)
         ELSE UNCHANGED window
    /\ pc' = "draw"
    /\ UNCHANGED << env, frame, term, msgs, input, geom, list, reader, exc, runs,
                    exitCode >>

\* Down arrow, j
NavDown ==
    /\ pc = "dispatch"
    /\ KeyAction(variant, key) = "down"
    /\ IF nItems > 0
         THEN /\ selected_index' = MoveDown(selected_index, nItems)
              /\ scroll_offset' =
                    UpdateScroll(selected_index', scroll_offset, max_display_items)
         ELSE UNCHANGED window
    /\ pc' = "draw"
    /\ UNCHANGED << env, frame, term, msgs, input, geom, list, reader, exc, runs,
                    exitCode >>

\* The Enter branch without its break: after the hand-off the loop goes on.
Activate_NoBreak ==
    /\ pc = "dispatch"
    /\ KeyAction(variant, key) = "enter"
    /\ ctl' = Emit(<<"show", "clear">>)
    /\ cursor' = "shown"
    /\ msgs' = msgs \cup {"Running"}
    /\ runCalls' = Append(runCalls, items[selected_index + 1])
    /\ pc' = "draw"
    /\ UNCHANGED << env, frame, mode, input, geom, list, window, reader, exc, result,
                    exitCode >>

\* The hand-off without _show_cursor(): the cursor stays as _draw_menu left it.
Activate_CursorLeftHidden ==
    /\ pc = "dispatch"
    /\ KeyAction(variant, key) = "enter"
    /\ ctl' = Emit(<<"clear">>)
    /\ msgs' = msgs \cup {"Running"}
    /\ runCalls' = Append(runCalls, items[selected_index + 1])
    /\ pc' = "running"
    /\ UNCHANGED << env, frame, mode, cursor, input, geom, list, window, reader,
                    exc, result, exitCode >>

\* Enter: name = items[selected_index][0]; _run_script / _run_task /
\* _attach_session up to the blocking subprocess.run: _show_cursor(),
\* _clear_screen(), the banner, the external process started with the name
Activate ==
    /\ pc = "dispatch"
    /\ KeyAction(variant, key) = "enter"
    /\ ctl' = Emit(<<"show", "clear">>)
    /\ cursor' = "shown"
    /\ msgs' = msgs \cup {"Running"}
    /\ runCalls' = Append(runCalls, items[selected_index + 1])
    /\ pc' = "running"
    /\ UNCHANGED << env, frame, mode, input, geom, list, window, reader, exc, result,
                    exitCode >>

\* q, Escape, Ctrl+C: break
Quit ==
    /\ pc = "dispatch"
    /\ KeyAction(variant, key) = "quit"
    /\ pc' = "finally"
    /\ UNCHANGED << env, frame, term, msgs, input, geom, list, window, reader, exc,
                    runs, exitCode >>

\* no branch of the chain matches: the loop goes round
Ignore ==
    /\ pc = "dispatch"
    /\ KeyAction(variant, key) = "none"
    /\ pc' = "draw"
    /\ UNCHANGED << env, frame, term, msgs, input, geom, list, window, reader, exc,
                    runs, exitCode >>

\* ------------------------------------- the external process comes back
RunOutcomes == {"ok", "nonzero", "KeyboardInterrupt", "FileNotFoundError", "Exception"}

\* Every way the run ends reported as a success.
PackageReport_AlwaysSuccess(out) == "completed successfully"

\* _run_script / _run_task: the line printed for each way subprocess.run ends
PackageReport(out) ==
    IF out = "ok" THEN "completed successfully"
    ELSE IF out = "nonzero" THEN "completed with exit code"
    ELSE IF out = "KeyboardInterrupt" THEN "interrupted by user"
    ELSE "Error running"

\* _attach_session without its `except FileNotFoundError` line.
TmuxReport_NotFoundSilent(out) == IF out = "nonzero" THEN "Failed to attach" ELSE ""

\* _attach_session: the line printed for each way subprocess.run ends that
\* it handles, "" for the ones it prints nothing for
TmuxReport(out) ==
    IF out = "nonzero" THEN "Failed to attach"
    ELSE IF out = "FileNotFoundError" THEN "attach: tmux not found on PATH."
    ELSE ""

\* _run_script / _run_task returning straight after the report, without the
\* acknowledgement read.
RunReturnsPackageTask_NoAck ==
    /\ pc = "running"
    /\ variant # "tmux"
    /\ \E out \in RunOutcomes :
          /\ result' = out
          /\ msgs' = msgs \cup {PackageReport(out)}
    /\ pc' = "finally"
    /\ UNCHANGED << env, frame, term, input, geom, list, window, reader, exc,
                    runCalls, exitCode >>

\* _run_script / _run_task after subprocess.run: every outcome is reported,
\* then "Press any key to exit..." and the acknowledgement read
RunReturnsPackageTask ==
    /\ pc = "running"
    /\ variant # "tmux"
    /\ \E out \in RunOutcomes :
          /\ result' = out
          /\ msgs' = msgs \cup {PackageReport(out), "Press any key to exit..."}
    /\ ret' = "ack"
    /\ pc' = "getattr"
    /\ UNCHANGED << env, frame, term, input, geom, list, window, old_settings, key, exc,
                    runCalls, exitCode >>

\* _attach_session after subprocess.run: only a non-zero exit and
\* FileNotFoundError are handled there, each with a line, "Press any key to
\* return..." and the acknowledgement read; exit status 0 returns at once,
\* and every other exception leaves _attach_session
RunReturnsTmux ==
    /\ pc = "running"
    /\ variant = "tmux"
    /\ \E out \in RunOutcomes :
          /\ result' = out
          /\ IF out = "ok"
               THEN /\ pc' = "finally"
                    /\ UNCHANGED << msgs, ret, exc >>
               ELSE IF out \in {"nonzero", "FileNotFoundError"}
               THEN /\ msgs' = msgs \cup {TmuxReport(out), "Press any key to return..."}
                    /\ ret' = "ack"
                    /\ pc' = "getattr"
                    /\ UNCHANGED exc
               ELSE /\ exc' = out
                    /\ pc' = "raised"
                    /\ UNCHANGED << msgs, ret >>
    /\ UNCHANGED << env, frame, term, input, geom, list, window, old_settings, key,
                    runCalls, exitCode >>

\* ------------------------------------------------- exceptions and the exit
\* run() without its `except KeyboardInterrupt` clause: the interrupt goes
\* through the finally clause like any other exception.
Propagate_NoInterruptClause ==
    /\ pc = "raised"
    /\ IF ret = "ack" /\ variant # "tmux"
         THEN /\ exc' = ""
              /\ UNCHANGED msgs
         ELSE UNCHANGED << exc, msgs >>
    /\ key' = <<>>
    /\ pc' = "finally"
    /\ UNCHANGED << env, frame, term, input, geom, list, window, ret, old_settings,
                    runs, exitCode >>

\* The bare `except: pass` round every _get_key call, the loop's included.
Propagate_SwallowsEverywhere ==
    /\ pc = "raised"
    /\ exc' = ""
    /\ key' = <<>>
    /\ pc' = "finally"
    /\ UNCHANGED << env, frame, term, msgs, input, geom, list, window, ret,
                    old_settings, runs, exitCode >>

\* An exception leaves _get_key or the activation: the bare `except: pass`
\* round the acknowledgement read of _run_script / _run_task swallows it;
\* otherwise run()'s `except KeyboardInterrupt` prints and swallows a
\* KeyboardInterrupt, and anything else passes through run()'s finally.
\* The frame of the failed call is gone: no key string is left from it.
Propagate ==
    /\ pc = "raised"
    /\ IF ret = "ack" /\ variant # "tmux"
         THEN /\ exc' = ""
              /\ UNCHANGED msgs
         ELSE IF exc = "KeyboardInterrupt"
         THEN /\ exc' = ""
              /\ msgs' = msgs \cup {"Menu interrupted by user"}
         ELSE UNCHANGED << exc, msgs >>
    /\ key' = <<>>
    /\ pc' = "finally"
    /\ UNCHANGED << env, frame, term, input, geom, list, window, ret, old_settings,
                    runs, exitCode >>

\* run()'s finally clause without _show_cursor().
Finally_NoShowCursor ==
    /\ pc = "finally"
    /\ ctl' = Emit(<<"clear">>)
    /\ exitCode' = IF exc = "" THEN 0 ELSE 1
    /\ pc' = "done"
    /\ UNCHANGED << env, frame, mode, cursor, msgs, input, geom, list, window,
                    reader, exc, runs >>

\* run()'s finally: _show_cursor(), _clear_screen(); then the process ends,
\* with status 1 when sys.exit(1) or an unhandled exception is in flight
Finally ==
    /\ pc = "finally"
    /\ ctl' = Emit(<<"show", "clear">>)
    /\ cursor' = "shown"
    /\ exitCode' = IF exc = "" THEN 0 ELSE 1
    /\ pc' = "done"
    /\ UNCHANGED << env, frame, mode, msgs, input, geom, list, window, reader, exc,
                    runs >>

Next ==
    \/ Main \/ Load
    \/ Keypress \/ CloseInput
    \/ Draw
    \/ GetAttr \/ SetRaw \/ Read1 \/ ReadRest \/ ReadError \/ ReadInterrupt
    \/ Restore
    \/ Interrupt
    \/ NavUp \/ NavDown \/ Activate \/ Quit \/ Ignore
    \/ RunReturnsPackageTask \/ RunReturnsTmux
    \/ Propagate \/ Finally

Spec == Init /\ [][Next]_vars

\* ------------------------------------------------- the renderer on its own
\* _draw_menu is a function of the variant, the terminal's width, the
\* window height, the items' text and the selection and scroll position.
\* RenderSpec starts where run() enters its loop, with these drawn from the
\* sets below, and walks the selection with the navigation keys.

\* Column counts `stty size` may report.
RenderCols == {40, 84, 100, 124}

\* <<len(name), len(detail)>> of the items a data source may yield: short
\* texts, names longer than a third and than half of the line, details at
\* and beyond the width of their column, empty details.
LenProfiles ==
    { << <<5, 6>>,   <<4, 0>>,   <<4, 66>>,  <<3, 67>>, <<3, 14>>, <<4, 0>> >>,
      << <<30, 10>>, <<45, 90>>, <<4, 200>>, <<70, 0>>, <<8, 47>>, <<26, 3>> >>,
      << <<24, 49>>, <<12, 50>>, <<1, 120>>, <<2, 1>>,  <<24, 0>>, <<9, 33>> >> }

RenderInit ==
    /\ variant \in Variants
    /\ isatty = TRUE
    /\ premode = "cooked"
    /\ mode = premode
    /\ cursor = "shown"
    /\ ctl = <<>>
    /\ msgs = {}
    /\ inq = <<>>
    /\ eof = FALSE
    /\ \E rows \in SttyRows \cup {FallbackRows} :
          /\ terminal_height = rows
          /\ max_display_items = MaxDisplayItems(rows)
    /\ terminal_width \in RenderCols \cup {FallbackCols}
    /\ \E k \in 1..MaxItems, p \in LenProfiles :
          /\ items = SubSeq(Catalogue, 1, k)
          /\ lens = SubSeq(p, 1, k)
    /\ error_message = ""
    /\ fetches = 1
    /\ selected_index = 0
    /\ scroll_offset = 0
    /\ pc = "draw"
    /\ ret = "loop"
    /\ old_settings = "unset"
    /\ key = <<>>
    /\ exc = ""
    /\ runCalls = <<>>
    /\ result = ""
    /\ frame = <<>>
    /\ exitCode = -1

\* _get_key() as one step, for a key press that keeps the loop going: the
\* mode is saved, raw mode entered, the bytes read and the mode put back.
GetKey ==
    /\ pc = "getattr"
    /\ ret = "loop"
    /\ \E k \in KeyPresses :
          /\ KeyAction(variant, k) \in {"up", "down", "none"}
          /\ key' = k
    /\ old_settings' = mode
    /\ pc' = "dispatch"
    /\ UNCHANGED << env, frame, term, msgs, input, geom, list, window, ret, exc,
                    runs, exitCode >>

RenderNext == Draw \/ GetKey \/ NavUp \/ NavDown \/ Ignore

RenderSpec == RenderInit /\ [][RenderNext]_vars

\* =================================================================== claims
UpKeys   == { <<ESC, "[", "A">>, <<"k">> }
DownKeys == { <<ESC, "[", "B">>, <<"j">> }

\* The process is between _get_key's tty.setraw and its tcsetattr.
InRawScope == pc \in {"read1", "read_rest", "restore"}

\* C1: with a non-empty list, selected_index is always a valid index, an Up
\* key handled at index 0 lands on the last item, and a Down key handled at
\* the last index lands on 0.
C1_SelectedIndexInRangeAndWraps ==
    /\ [](nItems > 0 => selected_index \in 0..(nItems - 1))
    /\ [][ (pc = "dispatch" /\ key \in UpKeys /\ selected_index = 0)
              => selected_index' = nItems - 1 ]_vars
    /\ [][ (pc = "dispatch" /\ key \in DownKeys /\ selected_index = nItems - 1)
              => selected_index' = 0 ]_vars

\* An Up key has just wrapped the selection from the first to the last item
\* of a list of at least three.
C1_Witness ==
    /\ pc = "draw"
    /\ key = <<ESC, "[", "A">>
    /\ nItems >= 3
    /\ selected_index = nItems - 1

\* C2: after a move and its _update_scroll the selected item is inside the
\* window, scroll_offset <= selected_index < scroll_offset +
\* max_display_items, whatever row count the terminal reported.
C2_SelectedVisibleAfterMove ==
    (pc = "draw" /\ key \in UpKeys \cup DownKeys)
        => /\ scroll_offset <= selected_index
           /\ selected_index < scroll_offset + max_display_items

\* C3: while the menu is up, 0 <= scroll_offset <= max(0, len(items) -
\* max_display_items).
C3_ScrollOffsetBounded ==
    nItems > 0
        => /\ 0 <= scroll_offset
           /\ scroll_offset <= Max(0, nItems - max_display_items)

\* An Up key wrapped from the first item to the last of a list longer than
\* the window, and the window followed to the last full page.
C3_Witness ==
    /\ pc = "draw"
    /\ key = <<ESC, "[", "A">>
    /\ max_display_items >= 1
    /\ nItems > max_display_items
    /\ selected_index = nItems - 1
    /\ scroll_offset = nItems - max_display_items

\* C4: outside _get_key's raw-mode scope the terminal's mode flags are the
\* ones it had before the program started: after every return of _get_key,
\* after every exception it raises, while the external process runs, and
\* when the process has ended.
C4_ModeRestoredOutsideReader == ~InRawScope => mode = premode

\* A KeyboardInterrupt broke a read that was waiting for the bytes after an
\* Escape: raw mode had been entered and the exception has left _get_key.
C4_Witness ==
    /\ pc = "raised"
    /\ exc = "KeyboardInterrupt"
    /\ key = <<ESC>>
    /\ mode = premode
    /\ old_settings = premode

EnterKeys == { <<CR>>, <<LF>> }

\* Every key run() acts on: arrows, j/k, Enter, q, Escape (a lone ESC byte,
\* or ESC [ cut short by the end of input), Ctrl+C.
KnownKeys ==
    UpKeys \cup DownKeys \cup EnterKeys \cup { <<"q">>, <<ESC>>, <<ESC, "[">>, <<ETX>> }

\* run()'s loop is at its top or handling a key.
InLoop == pc \in {"draw", "dispatch"}

\* C5: Enter read in the loop starts the external run with the name at
\* selected_index as it is then; the run is started at most once; after it
\* the loop is never at its top or handling a key again, and neither the
\* selection, the window nor the list of runs changes.
C5_EnterRunsSelectedOnce ==
    /\ [][ (pc = "dispatch" /\ key \in EnterKeys)
              => /\ runCalls' = <<items[selected_index + 1]>>
                 /\ pc' = "running" ]_vars
    /\ [](runCalls # <<>> => ~InLoop /\ runCalls = <<items[selected_index + 1]>>)
    /\ [][ (runCalls # <<>>)
              => (UNCHANGED << selected_index, scroll_offset, runCalls, items >>) ]_vars

\* Down, Enter on [build, test]: the external run was started with "test"
\* and the process has ended.
C5_Witness ==
    /\ items = <<"build", "test">>
    /\ selected_index = 1
    /\ runCalls = <<"test">>
    /\ pc = "done"

\* C6: q or Ctrl+C read in the loop leaves it for run()'s finally with no
\* external run started; from there no key is read (the process only ends),
\* no exception is in flight and the exit status is 0.
C6_QuitKeysExitCleanly ==
    /\ [][ (pc = "dispatch" /\ key \in { <<"q">>, <<ETX>> })
              => /\ pc' = "finally"
                 /\ runCalls' = <<>>
                 /\ exc' = "" ]_vars
    /\ []( (pc \in {"finally", "done"} /\ key \in { <<"q">>, <<ETX>> })
              => /\ runCalls = <<>>
                 /\ exc = ""
                 /\ (pc = "done" => exitCode = 0) )
    /\ [][ (pc \in {"finally", "done"})
              => /\ pc' = "done"
                 /\ (UNCHANGED << inq, key, runCalls >>) ]_vars

\* Ctrl+C (byte 0x03) was read with the second item selected and the process
\* has ended with status 0.
C6_Witness ==
    /\ pc = "done"
    /\ key = <<ETX>>
    /\ selected_index = 1
    /\ runCalls = <<>>
    /\ exitCode = 0

\* C7: a lone ESC byte ends the loop: the key reader never waits for more
\* input after it, and a key string that starts with ESC and reaches the
\* handlers is ESC alone or ESC [ and one more byte of the same key press,
\* never ESC followed by later key presses.
C7_BareEscapeExits ==
    /\ ~(pc = "read_rest" /\ key = <<ESC>> /\ inq = <<>> /\ ~eof)
    /\ (pc = "dispatch" /\ key # <<>> /\ Head(key) = ESC)
          => key \in { <<ESC>>, <<ESC, "[">>,
                       <<ESC, "[", "A">>, <<ESC, "[", "B">>, <<ESC, "[", "C">> }

\* C8: a key run() does not act on leaves selected_index, scroll_offset and
\* the items unchanged and the loop goes round to the next frame.
C8_OtherKeysIgnored ==
    [][ (pc = "dispatch" /\ key \notin KnownKeys)
           => /\ pc' = "draw"
              /\ (UNCHANGED << selected_index, scroll_offset, items, runCalls >>) ]_vars

\* The left arrow (ESC [ C) was read with the last item of a scrolled list
\* selected and the loop is at its top again.
C8_Witness ==
    /\ pc = "draw"
    /\ key = <<ESC, "[", "C">>
    /\ selected_index = nItems - 1
    /\ scroll_offset > 0

\* C9: when the data source returned no item the process has ended with
\* status 0, having printed exactly one plain message (the reason left in
\* error_message by tmux-menu.py's source, the fixed text of the other two),
\* with no tcgetattr, no raw mode, no byte read, no cursor or screen
\* sequence written.
C9_EmptySourceExitsPlainly ==
    (fetches > 0 /\ items = <<>>)
        => /\ pc = "done"
           /\ exitCode = 0
           /\ fetches = 1
           /\ msgs = { IF variant = "package" THEN "No scripts found."
                       ELSE IF variant = "task" THEN "No tasks found."
                       ELSE error_message }
           /\ (variant = "tmux" => error_message \in TmuxReasons)
           /\ old_settings = "unset"
           /\ mode = premode
           /\ key = <<>>
           /\ cursor = "shown"
           /\ ctl = <<>>

\* tmux-menu.py found no server running and has ended.
C9_Witness ==
    /\ variant = "tmux"
    /\ fetches = 1
    /\ items = <<>>
    /\ error_message = "No tmux server running. Start a session first."
    /\ pc = "done"

\* C10: when stdin is not a terminal the process only ends, with status 1:
\* the data source is never called, tcgetattr and raw mode never happen, and
\* no cursor or screen sequence is written.
C10_NotATtyExitsAtOnce ==
    ~isatty
        => /\ pc \in {"main", "done"}
           /\ (pc = "done" => exitCode = 1)
           /\ fetches = 0
           /\ items = <<>>
           /\ old_settings = "unset"
           /\ mode = premode
           /\ cursor = "shown"
           /\ ctl = <<>>

\* The process has ended on a stdin that is not a terminal.
C10_Witness ==
    /\ ~isatty
    /\ pc = "done"
    /\ exitCode = 1
    /\ msgs = {"This script requires an interactive terminal."}

\* ------------------------------------------------------ after the activation
\* The line a variant prints for the way the external run ended, "" for none.
Report(v, out) == IF v = "tmux" THEN TmuxReport(out) ELSE PackageReport(out)

PackageReports == { PackageReport(out) : out \in RunOutcomes }
TmuxReports    == { TmuxReport(out) : out \in RunOutcomes } \ {""}

\* The ways tmux-menu.py's _attach_session follows with an acknowledgement read.
TmuxAcknowledged == {"nonzero", "FileNotFoundError"}

\* The acknowledgement read _get_key() was entered (ret is set to "ack" by
\* nothing else, and the loop is never entered again after an activation).
AckReadMade == ret = "ack"

\* C11 as stated: whatever the way the external run ended and whichever the
\* variant, the process has made the acknowledgement read when it exits.
C11_AckAfterEveryOutcome ==
    (pc = "done" /\ result # "") => AckReadMade

\* C11, amended: package-menu.py and task-menu-fast.py enter the
\* acknowledgement read after every way the external run ends; tmux-menu.py
\* enters it only after a non-zero exit status and after FileNotFoundError,
\* and goes to its exit without one after exit status 0, an interrupt or any
\* other exception.  The read is made at most once: whatever it returns or
\* raises, the process goes on to its exit.
C11_AckReadPerVariantAndOutcome ==
    /\ []( (pc = "done" /\ result # "")
             => (AckReadMade <=> (variant # "tmux" \/ result \in TmuxAcknowledged)) )
    /\ [][ (pc = "running" /\ (variant # "tmux" \/ result' \in TmuxAcknowledged))
              => (pc' = "getattr" /\ ret' = "ack") ]_vars
    /\ [][ (pc = "running" /\ variant = "tmux" /\ result' \notin TmuxAcknowledged)
              => (pc' \in {"finally", "raised"} /\ ret' = "loop") ]_vars
    /\ [][ (AckReadMade /\ pc \in {"restore", "raised"})
              => pc' \in {"raised", "finally"} ]_vars

\* The task was interrupted, the acknowledgement read was made and a key
\* was read in it before the exit.
C11_Witness ==
    /\ pc = "done"
    /\ variant = "task"
    /\ result = "KeyboardInterrupt"
    /\ AckReadMade
    /\ "Press any key to exit..." \in msgs
    /\ old_settings # "unset"

\* The four kinds of outcome the claims tell apart.
OutcomeClass(out) ==
    IF out \in {"FileNotFoundError", "Exception"} THEN "error" ELSE out

MenuInterruptMsg == "Menu interrupted by user"

\* C12 as stated: in every variant each kind of outcome has a report of its
\* own, which is printed; exit status 0 has a report, and an interrupt of
\* the external run is never reported as an interrupt of the menu.
C12_EveryOutcomeReportedDistinctly ==
    (pc = "done" /\ result # "")
       => /\ Report(variant, result) # ""
          /\ Report(variant, result) \in msgs
          /\ \A o \in RunOutcomes :
                OutcomeClass(o) # OutcomeClass(result)
                   => Report(variant, o) # Report(variant, result)
          /\ (result = "KeyboardInterrupt" => MenuInterruptMsg \notin msgs)

\* C12, amended: in package-menu.py and task-menu-fast.py exactly the report
\* of the outcome is printed, different kinds of outcome have different
\* reports, and run()'s menu-interrupt line is never printed after an
\* activation.  In tmux-menu.py only a non-zero exit status and
\* FileNotFoundError are reported, each with its own line; exit status 0
\* prints nothing, and an interrupt of the attach is reported by run() with
\* the menu-interrupt line.
C12_OutcomeReportsPerVariant ==
    result # ""
       => IF variant # "tmux"
            THEN /\ msgs \cap PackageReports = {PackageReport(result)}
                 /\ \A a, b \in RunOutcomes :
                       OutcomeClass(a) # OutcomeClass(b)
                          => PackageReport(a) # PackageReport(b)
                 /\ MenuInterruptMsg \notin msgs
            ELSE /\ msgs \cap TmuxReports = {TmuxReport(result)} \ {""}
                 /\ TmuxReport("nonzero") # TmuxReport("FileNotFoundError")
                 /\ TmuxReport("ok") = ""
                 /\ (pc = "done" /\ result = "KeyboardInterrupt")
                       => MenuInterruptMsg \in msgs

\* A package script was interrupted and its interruption reported.
C12_Witness ==
    /\ pc = "done"
    /\ variant = "package"
    /\ result = "KeyboardInterrupt"
    /\ "interrupted by user" \in msgs
    /\ "completed successfully" \notin msgs

InvocationFailures == {"FileNotFoundError", "Exception"}

\* C13 as stated: in every variant an external run that could not be
\* started is reported, the acknowledgement read follows, and its exception
\* is never in flight out of run().
C13_InvocationFailureNeverEscapes ==
    result \in InvocationFailures
       => /\ Report(variant, result) # ""
          /\ Report(variant, result) \in msgs
          /\ AckReadMade
          /\ exc # "Exception"

\* C13, amended: a missing tool (FileNotFoundError) is reported and followed
\* by the acknowledgement read in all three variants, and so is every other
\* exception of the invocation in package-menu.py and task-menu-fast.py.
\* In tmux-menu.py an exception other than FileNotFoundError is not
\* reported: it leaves run() through the finally clause and the process ends
\* with status 1.
C13_InvocationFailureHandling ==
    result \in InvocationFailures
       => IF variant # "tmux" \/ result = "FileNotFoundError"
            THEN /\ Report(variant, result) # ""
                 /\ Report(variant, result) \in msgs
                 /\ AckReadMade
                 /\ exc # "Exception"
            ELSE /\ msgs \cap TmuxReports = {}
                 /\ ~AckReadMade
                 /\ exc = "Exception"
                 /\ pc \in {"raised", "finally", "done"}
                 /\ (pc = "done" => exitCode = 1)

\* tmux was missing: the line was printed, the key read, the exit normal.
C13_Witness ==
    /\ pc = "done"
    /\ variant = "tmux"
    /\ result = "FileNotFoundError"
    /\ TmuxReport(result) \in msgs
    /\ AckReadMade
    /\ exitCode = 0

\* ------------------------------------------------- interrupts and failures
\* The control sequences written last, oldest first.
LastTwoCtl == SubSeq(ctl, Max(1, Len(ctl) - 1), Len(ctl))

\* C14: a KeyboardInterrupt raised while the frame is drawn, while a key is
\* read or while the external process runs is in flight only on its way to
\* a handler that clears it; the process then ends with the mode restored,
\* the cursor shown and the screen cleared last, and with exit status 0.
C14_InterruptCaughtAndRestored ==
    /\ [](exc = "KeyboardInterrupt" => pc \in {"restore", "raised"})
    /\ [][ (pc = "raised" /\ exc = "KeyboardInterrupt")
              => (exc' = "" /\ pc' = "finally") ]_vars
    /\ []( (pc = "done" /\ (MenuInterruptMsg \in msgs \/ result = "KeyboardInterrupt"))
             => /\ exitCode = 0
                /\ exc = ""
                /\ mode = premode
                /\ cursor = "shown"
                /\ LastTwoCtl = <<"show", "clear">> )

\* A key read in the loop was interrupted after raw mode had been entered;
\* the process has ended.
C14_Witness ==
    /\ pc = "done"
    /\ MenuInterruptMsg \in msgs
    /\ result = ""
    /\ old_settings # "unset"
    /\ exitCode = 0
    /\ mode = premode

\* C15 as stated: when tcgetattr raises in the first _get_key call, no
\* clear-screen or hide-cursor sequence has been written by then.
C15_NoScreenWorkBeforeNotInteractive ==
    (pc = "raised" /\ exc = "SystemExit" /\ old_settings = "unset")
       => (ctl = <<>> /\ cursor = "shown")

\* C16 as stated: once a _get_key call has failed with a terminal or OS
\* error, the process ends with status 1, wherever the call was made.
C16_ReadFailureAlwaysFatal ==
    (pc = "done" /\ NotInteractiveMsg \in msgs) => exitCode = 1

\* C16, amended: a _get_key call that fails with a terminal or OS error ends
\* the process with status 1 when it is the loop's read (all three
\* variants) or the acknowledgement read of tmux-menu.py; the
\* acknowledgement read of package-menu.py and task-menu-fast.py is wrapped
\* in a bare `except: pass`, which swallows the sys.exit(1): the process
\* then ends with status 0.
C16_ReadFailureFatalExceptSwallowedAck ==
    /\ []( (pc = "done" /\ NotInteractiveMsg \in msgs)
             => exitCode = IF AckReadMade /\ variant # "tmux" THEN 0 ELSE 1 )
    /\ [][ (pc = "raised" /\ exc = "SystemExit")
              => exc' = IF AckReadMade /\ variant # "tmux" THEN "" ELSE "SystemExit" ]_vars

\* A read of the loop failed after raw mode had been entered: the mode is
\* back and the status is 1.
C16_Witness ==
    /\ pc = "done"
    /\ NotInteractiveMsg \in msgs
    /\ ~AckReadMade
    /\ old_settings # "unset"
    /\ mode = premode
    /\ exitCode = 1

\* C17 as stated: a read of the loop that returned no byte because the
\* input has ended is never handed to the handlers as a key, and the loop
\* never goes round on it.
C17_EndOfInputIsFatal ==
    (eof /\ key = <<>> /\ ret = "loop" /\ exc = "") => pc \notin {"dispatch", "draw"}

\* --------------------------------------------------------------- the frame
ItemLines   == { i \in DOMAIN frame : frame[i].kind = "item" }
ScrollLines == { i \in DOMAIN frame : frame[i].kind = "scroll" }

\* The frame on the screen was drawn from the present selection and scroll
\* position: the loop is between _draw_menu and the end of a key handler.
FrameCurrent ==
    /\ frame # <<>>
    /\ ret = "loop"
    /\ pc \in {"getattr", "setraw", "read1", "read_rest", "restore", "dispatch"}

\* C18 as stated: every line of the frame (borders, header, item rows,
\* scroll row, controls row) has max(80, terminal_width - 4) characters.
C18_EveryLineAvailableWidth ==
    \A i \in DOMAIN frame : frame[i].width = AvailableWidth(terminal_width)

\* C19 as stated: in every item row the name field has exactly name_width
\* characters and the detail field exactly detail_width characters, a longer
\* text being cut to width - 3 characters plus "...".
C19_BothFieldsExactlyColumnWidth ==
    \A i \in ItemLines :
        LET nw == NameWidth(variant, terminal_width, lens)
            dw == DetailWidth(variant, terminal_width, lens)
            nl == lens[frame[i].idx + 1][1]
            dl == lens[frame[i].idx + 1][2]
        IN  /\ FieldWidth(frame[i].name) = nw
            /\ FieldWidth(frame[i].detail) = dw
            /\ (nl > nw => (frame[i].name.text = nw - 3 /\ frame[i].name.dots = 3))
            /\ (dl > dw => (frame[i].detail.text = dw - 3 /\ frame[i].detail.dots = 3))

\* C19, amended: in every item row the detail field has exactly detail_width
\* characters (a detail longer than the column is cut to detail_width - 3
\* characters plus "...", a shorter one is padded); the name is only padded:
\* it is printed in full with max(len(name), name_width) characters, so a
\* name longer than name_width overflows its column.
C19_DetailExactNamePaddedOnly ==
    \A i \in ItemLines :
        LET nw == NameWidth(variant, terminal_width, lens)
            dw == DetailWidth(variant, terminal_width, lens)
            nl == lens[frame[i].idx + 1][1]
            dl == lens[frame[i].idx + 1][2]
        IN  /\ FieldWidth(frame[i].detail) = dw
            /\ (dl > dw => frame[i].detail = [text |-> dw - 3, dots |-> 3, pad |-> 0])
            /\ (dl <= dw => frame[i].detail = [text |-> dl, dots |-> 0, pad |-> dw - dl])
            /\ frame[i].name = [text |-> nl, dots |-> 0, pad |-> Max(0, nw - nl)]
            /\ FieldWidth(frame[i].name) = Max(nl, nw)

\* A row was drawn whose name is longer than the name column and whose
\* detail is longer than the detail column.
C19_Witness ==
    \E i \in ItemLines :
        /\ lens[frame[i].idx + 1][1] > NameWidth(variant, terminal_width, lens)
        /\ lens[frame[i].idx + 1][2] > DetailWidth(variant, terminal_width, lens)
        /\ frame[i].detail.dots = 3
        /\ frame[i].name.dots = 0

\* C20 as stated: the scroll row is in the frame exactly when the list is
\* longer than max_display_items; it shows X = start + 1 and Y = end of
\* _get_display_range(), with 1 <= X <= Y <= N and the selected item's
\* number within X..Y.
C20_ScrollRowBounds ==
    FrameCurrent
       => /\ (ScrollLines # {} <=> nItems > max_display_items)
          /\ \A i \in ScrollLines :
                LET range == GetDisplayRange(scroll_offset, max_display_items, nItems)
                IN  /\ frame[i].x = range[1] + 1
                    /\ frame[i].y = range[2]
                    /\ frame[i].total = nItems
                    /\ 1 <= frame[i].x
                    /\ frame[i].x <= frame[i].y
                    /\ frame[i].y <= nItems
                    /\ selected_index + 1 \in frame[i].x .. frame[i].y

\* ------------------------------------------------------------ the geometry
\* The menu object has been constructed.
Constructed == pc # "main" /\ isatty

\* C21 as stated: for every row count the viewport height is
\* min(30, rows - 8) clamped to at least 1, so 1 <= max_display_items <= 30.
C21_ViewportHeightAtLeastOne ==
    Constructed
       => /\ max_display_items = Max(1, Min(MaxVisible, terminal_height - ChromeRows))
          /\ 1 <= max_display_items
          /\ max_display_items <= MaxVisible

\* ------------------------------------------------------------ leaving the loop
\* run() has entered its try block: the list was fetched and is non-empty.
LoopEntered == isatty /\ fetches > 0 /\ nItems > 0

\* C22: when the process has ended after entering the loop, by q, Escape,
\* Ctrl+C, an interrupt, a failed key read or an activation, the mode flags
\* are those from before the menu, the cursor is shown, and the last two
\* control sequences written are show-cursor, clear-screen; every way out of
\* the loop passes through run()'s finally clause.
C22_ExitRestoresTerminal ==
    /\ []( (pc = "done" /\ LoopEntered)
             => /\ mode = premode
                /\ cursor = "shown"
                /\ LastTwoCtl = <<"show", "clear">> )
    /\ [](pc = "done" => cursor = "shown")
    /\ [][ (LoopEntered /\ pc' = "done") => pc = "finally" ]_vars

\* The frame had been drawn (cursor hidden), a key read failed after raw
\* mode was entered, and the process has ended with the terminal restored.
C22_Witness ==
    /\ pc = "done"
    /\ LoopEntered
    /\ frame # <<>>
    /\ exitCode = 1
    /\ old_settings # "unset"
    /\ runCalls = <<>>
    /\ cursor = "shown"

\* C23: the step that starts the external process finds the mode flags
\* restored, then writes show-cursor and clear-screen in this order and
\* prints the banner, and starts the process with the chosen name; while
\* the process runs the mode is never raw and the cursor never hidden.
C23_ActivationOrder ==
    /\ []( pc = "running"
             => /\ mode = premode
                /\ cursor = "shown"
                /\ LastTwoCtl = <<"show", "clear">>
                /\ "Running" \in msgs
                /\ runCalls = << items[selected_index + 1] >> )
    /\ [][ (pc' = "running")
              => /\ pc = "dispatch"
                 /\ mode = premode
                 /\ "Running" \notin msgs
                 /\ runCalls = <<>> ]_vars

\* The third item was chosen in tmux-menu.py on a terminal that had been in
\* cbreak mode, and the attach is running.
C23_Witness ==
    /\ pc = "running"
    /\ variant = "tmux"
    /\ premode = "cbreak"
    /\ selected_index = 2
    /\ runCalls = << items[3] >>
    /\ cursor = "shown"

\* C24: the data source is called exactly once per run(), and no step after
\* the loading changes the list; terminal_height, terminal_width and
\* max_display_items are set by the construction and never afterwards.
C24_ListAndGeometryFixed ==
    /\ [](fetches <= 1)
    /\ []( (Constructed /\ pc # "load") => fetches = 1 )
    /\ [][ (pc \notin {"main", "load"})
              => (UNCHANGED << items, lens, error_message, fetches >>) ]_vars
    /\ [][ (pc # "main")
              => (UNCHANGED << terminal_height, terminal_width, max_display_items >>) ]_vars

\* After a move and an activation the process has ended: one fetch, the
\* list and the geometry as they were loaded.
C24_Witness ==
    /\ pc = "done"
    /\ fetches = 1
    /\ nItems = 3
    /\ selected_index = 1
    /\ result = "ok"
    /\ terminal_height = 9

\* ---------------------------------------------------------- the renderer
\* What _draw_menu prints for the present state.
FrameOfState ==
    DrawMenu(variant, terminal_width, max_display_items, lens,
             selected_index, scroll_offset)

C26_VimKeysLikeArrows ==
    /\ [][ (pc = "dispatch" /\ key \in UpKeys)
              => /\ selected_index' = MoveUp(selected_index, nItems)
                 /\ scroll_offset' =
                       UpdateScroll(selected_index', scroll_offset, max_display_items)
                 /\ pc' = "draw" ]_vars
    /\ [][ (pc = "dispatch" /\ key \in DownKeys)
              => /\ selected_index' = MoveDown(selected_index, nItems)
                 /\ scroll_offset' =
                       UpdateScroll(selected_index', scroll_offset, max_display_items)
                 /\ pc' = "draw" ]_vars
    /\ [](\A v \in Variants :
             /\ KeyAction(v, <<"k">>) = KeyAction(v, <<ESC, "[", "A">>)
             /\ KeyAction(v, <<"j">>) = KeyAction(v, <<ESC, "[", "B">>))

\* k was handled at the top of a list shown one row at a time: the
\* selection wrapped to the last item and the window followed it.
C26_Witness ==
    /\ pc = "draw"
    /\ key = <<"k">>
    /\ nItems = 3
    /\ max_display_items = 1
    /\ selected_index = 2
    /\ scroll_offset = 2

\* Where the loop is after a key handler.
PhaseOf(p) ==
    IF p = "draw" THEN "Browsing"
    ELSE IF p = "running" THEN "Activating"
    ELSE IF p = "finally" THEN "Exiting"
    ELSE "other"

\* The selection, the scroll position and the phase after variant v's
\* chain has handled key k.
NavOutcome(v, k, sel, scroll, m, n) ==
    LET a == KeyAction(v, k)
    IN  IF a = "up"
          THEN << MoveUp(sel, n), UpdateScroll(MoveUp(sel, n), scroll, m), "Browsing" >>
        ELSE IF a = "down"
          THEN << MoveDown(sel, n), UpdateScroll(MoveDown(sel, n), scroll, m), "Browsing" >>
        ELSE IF a = "enter" THEN << sel, scroll, "Activating" >>
        ELSE IF a = "quit" THEN << sel, scroll, "Exiting" >>
        ELSE << sel, scroll, "Browsing" >>

\* C27: whichever variant runs, a key handler takes the selection, the
\* scroll position and the phase to what the chain of each of the three
\* variants yields for that key; the viewport height is the same function
\* of the row count and the window starts at (0, 0) in all of them.  So for
\* equal item count, row count and keys the three go through the same
\* (selected_index, scroll_offset) and outcomes.
C27_VariantsSameNavigation ==
    /\ [][ (pc = "dispatch")
              => \A v \in Variants :
                    << selected_index', scroll_offset', PhaseOf(pc') >>
                       = NavOutcome(v, key, selected_index, scroll_offset,
                                    max_display_items, nItems) ]_vars
    /\ [](Constructed => max_display_items = MaxDisplayItems(terminal_height))
    /\ [](pc = "load" => (selected_index = 0 /\ scroll_offset = 0))

\* tmux-menu.py handled j on a terminal showing one row: the second item is
\* selected and the window has followed.
C27_Witness ==
    /\ variant = "tmux"
    /\ pc = "draw"
    /\ key = <<"j">>
    /\ max_display_items = 1
    /\ selected_index = 1
    /\ scroll_offset = 1

RECURSIVE Downs(_, _, _)
\* selected_index after k Down moves
Downs(k, sel, n) == IF k = 0 THEN sel ELSE Downs(k - 1, MoveDown(sel, n), n)

RECURSIVE Ups(_, _, _)
\* selected_index after k Up moves
Ups(k, sel, n) == IF k = 0 THEN sel ELSE Ups(k - 1, MoveUp(sel, n), n)

\* C28: from every selection of a non-empty list Down then Up, and Up then
\* Down, lead back to it, and so do n Downs and n Ups on a list of n items;
\* the selection a Down handler leaves is taken back by Up, and the one an
\* Up handler leaves by Down.  Nothing is said of scroll_offset.
C28_UpInvertsDown ==
    /\ []( nItems > 0
             => /\ MoveUp(MoveDown(selected_index, nItems), nItems) = selected_index
                /\ MoveDown(MoveUp(selected_index, nItems), nItems) = selected_index
                /\ Downs(nItems, selected_index, nItems) = selected_index
                /\ Ups(nItems, selected_index, nItems) = selected_index )
    /\ [][ (pc = "dispatch" /\ key \in DownKeys)
              => MoveUp(selected_index', nItems) = selected_index ]_vars
    /\ [][ (pc = "dispatch" /\ key \in UpKeys)
              => MoveDown(selected_index', nItems) = selected_index ]_vars

\* Down was handled at the last of three items: the selection is back at
\* the first.
C28_Witness ==
    /\ pc = "draw"
    /\ key \in DownKeys
    /\ nItems = 3
    /\ selected_index = 0
    /\ frame # <<>>
    /\ \E i \in ItemLines : frame[i].selected /\ frame[i].idx = 2
====
